---- MODULE Spec2Model ----
(***************************************************************************)
(* Credential service of src/index.js: POST /signup, POST /login and       *)
(* POST /change-password against the `users` table (id, email, password).  *)
(* Every handler is an async function: the code between two awaits runs    *)
(* without interruption, and each awaited storage query or bcrypt call is  *)
(* a point where other requests' steps interleave.  One action models one  *)
(* such step of one request.                                               *)
(***************************************************************************)
EXTENDS Integers, Sequences, FiniteSets, Bags, TLC

\* ------------------------------------------------------------------ bounds
\* Number of requests that can be in flight at the same time.
NReq == 2
\* Total number of requests accepted in one behaviour.
MaxRequests == 3

\* ------------------------------------------------------------- value sets
Emails == {"a@x.com", "b@x.com"}
PwSeq == <<"secret1", "wrong">>
Passwords == {PwSeq[i] : i \in 1 .. Len(PwSeq)}
\* A field that is absent from the body or the empty string: `!field` holds.
Empty == ""
\* The salts bcrypt.hash can draw.
Salts == {1, 2}
\* bcrypt cost factor passed to bcrypt.hash
Rounds == 10

VARIABLES
    users,        \* the rows of the users table, in id order
    nextId,       \* the table's next auto-assigned id
    uniqueIndex,  \* whether the table declares a unique index on email
    pending,      \* the requests in flight, each at one of its awaits
    last,         \* the request the latest step answered, with its response
    started,      \* number of requests accepted so far
    lastWrite,    \* per email, the last statement that wrote its rows
    contended     \* per email, whether its latest signup overlapped another

vars == <<users, nextId, uniqueIndex, pending, last, started, lastWrite, contended>>

\* ------------------------------------------------------------------ bcrypt
PwCode(pw) == CHOOSE i \in 1 .. Len(PwSeq) : PwSeq[i] = pw

\* The digest bcrypt derives from a password under one salt and cost: a
\* one-way function, injective on the model's passwords and salts.
Digest(pw, salt, rounds) == (PwCode(pw) * 100 + salt) * 100 + rounds

\* bcrypt.hash(password, 10) with the salt it generated: the stored string
\* carries the cost, the salt and the digest.
Hash(pw, salt) == [rounds |-> Rounds, salt |-> salt, digest |-> Digest(pw, salt, Rounds)]

Hashes == {Hash(p, s) : p \in Passwords, s \in Salts}

\* Variant of Compare that accepts any password for a well-formed hash.
CompareIgnoresPassword(pw, h) == h \in Hashes

\* bcrypt.compare(password, hash): hashes the password again under the salt
\* and cost the stored hash carries and compares the digests.
Compare(pw, h) == Digest(pw, h.salt, h.rounds) = h.digest

\* ------------------------------------------------------------------- store
\* The table is a sequence of rows in id order; a SELECT returns its rows in
\* that order.
\* Variant of SelectByEmail without its WHERE clause.
SelectIgnoresEmail(rows, email) == rows

\* SELECT * FROM users WHERE email = ?
SelectByEmail(rows, email) == SelectSeq(rows, LAMBDA u : u.email = email)

\* INSERT INTO users (email, password) VALUES (?, ?), id auto-assigned
InsertUser(rows, id, email, hashed) ==
    Append(rows, [id |-> id, email |-> email, password |-> hashed])

\* Variant of UpdatePassword without its WHERE clause.
UpdateIgnoresEmail(rows, email, hashed) ==
    [i \in DOMAIN rows |-> [rows[i] EXCEPT !.password = hashed]]

\* UPDATE users SET password = ? WHERE email = ?
UpdatePassword(rows, email, hashed) ==
    [i \in DOMAIN rows |-> IF rows[i].email = email
                           THEN [rows[i] EXCEPT !.password = hashed]
                           ELSE rows[i]]

\* ---------------------------------------------------------------- requests
NoHash == [rounds |-> 0, salt |-> 0, digest |-> 0]
NoUser == [id |-> 0, email |-> Empty]
NoLog == "none"
NoWrite == [kind |-> "none", old |-> Empty, new |-> Empty, sole |-> FALSE]

\* A request as the handler holds it: the body's fields, the await it is at
\* (pc), what its lookup returned (results, results[1] being the code's
\* results[0]), the hash it computed, and the response and audit entry once
\* sent.  The remaining fields are a record of what happened to it:
\*   queries  the queries it had executed, in order
\*   nresp    how many responses it sent
\*   failed   the query that threw, fault that the store rejected it
\*   fresh    (signup) the email had no record when it was accepted and no
\*            other signup for the email was in flight with it
\*   ctx      lastWrite of its email as its lookup was executed
NoReq ==
    [route |-> "none", pc |-> "idle", email |-> Empty, password |-> Empty,
     newPassword |-> Empty, results |-> <<>>, hashed |-> NoHash,
     status |-> 0, message |-> Empty, user |-> NoUser, log |-> NoLog,
     queries |-> <<>>, nresp |-> 0, failed |-> "none", fault |-> FALSE,
     fresh |-> FALSE, ctx |-> NoWrite]

\* res.status(s).json({message}) (and `user` on a successful login): the
\* request is answered and the handler returns; the hash it computed is
\* not part of what it leaves behind.
Respond(q, s, msg, usr, lg) ==
    [q EXCEPT !.pc = "done", !.status = s, !.message = msg, !.user = usr,
              !.log = lg, !.nresp = q.nresp + 1, !.hashed = NoHash]

Init ==
    /\ users = <<>>
    /\ nextId = 1
    /\ uniqueIndex \in BOOLEAN
    /\ pending = EmptyBag
    /\ last = NoReq
    /\ started = 0
    /\ lastWrite = [e \in Emails |-> NoWrite]
    /\ contended = [e \in Emails |-> FALSE]

\* Messages of the 400 and 500 responses, by route.
RequiredMsg(route) ==
    IF route = "change"
    THEN "Email, old password, and new password are required"
    ELSE "Email and password are required"

\* Variant of FailMsg that returns err.message to the caller.
FailMsgLeaksError(route) == "ER_DUP_ENTRY: Duplicate entry for key 'users.email'"

\* The message of a route's catch block.
FailMsg(route) ==
    CASE route = "signup" -> "Sign-up failed"
      [] route = "login" -> "Login failed"
      [] OTHER -> "Failed to change password"

\* !email || !password
Missing2(email, password) == email = Empty \/ password = Empty

\* Variant of Missing3 that does not look at newPassword.
MissingForgetsNew(email, oldPassword, newPassword) ==
    email = Empty \/ oldPassword = Empty

\* !email || !oldPassword || !newPassword
Missing3(email, oldPassword, newPassword) ==
    email = Empty \/ oldPassword = Empty \/ newPassword = Empty

\* A new request is accepted: the request budget and the number of requests
\* in flight allow it.
Accept == started < MaxRequests /\ BagCardinality(pending) < NReq

\* Request q, in flight, moves to its next await as q2.
Advance(q, q2) ==
    /\ pending' = (pending (-) SetToBag({q})) (+) SetToBag({q2})
    /\ last' = NoReq

\* Request q, in flight, is answered as q2 and leaves.
Finish(q, q2) ==
    /\ pending' = pending (-) SetToBag({q})
    /\ last' = q2

\* A request is answered by the handler's first synchronous run.
Reject(q2) ==
    /\ pending' = pending
    /\ last' = q2
    /\ started' = started + 1

\* A request passes validation and its first query is issued.
Enter(q2) ==
    /\ pending' = pending (+) SetToBag({q2})
    /\ last' = NoReq
    /\ started' = started + 1

\* ----------------------------------------------------------- POST /signup
\* The handler up to its first await: destructure the body, validate, and
\* issue the existence SELECT.
Signup(email, password) ==
    /\ Accept
    /\ LET q == [NoReq EXCEPT !.route = "signup", !.email = email,
                              !.password = password]
           rivals == {o \in BagToSet(pending) :
                        o.route = "signup" /\ o.email = email}
       IN IF Missing2(email, password)
          THEN /\ Reject(Respond(q, 400, RequiredMsg("signup"), NoUser, NoLog))
               /\ contended' = contended
          ELSE /\ Enter([q EXCEPT !.pc = "select",
                                  !.fresh = \A i \in DOMAIN users :
                                             users[i].email # email])
               /\ contended' = [contended EXCEPT ![email] = rivals # {}]
    /\ UNCHANGED <<users, nextId, uniqueIndex, lastWrite>>

\* Variant of SignupSelect without the results.length check.
SignupSelectNoCheck(q) ==
    /\ q.route = "signup" /\ q.pc = "select"
    /\ Advance(q, [q EXCEPT !.results = SelectByEmail(users, q.email),
                            !.queries = Append(q.queries, "SELECT"),
                            !.ctx = lastWrite[q.email],
                            !.fresh = q.fresh /\ ~contended[q.email],
                            !.pc = "hash"])
    /\ UNCHANGED <<users, nextId, uniqueIndex, started, lastWrite, contended>>

\* The existence SELECT is executed and its rows come back: a non-empty
\* result answers 400, an empty one starts bcrypt.hash.
SignupSelect(q) ==
    /\ q.route = "signup" /\ q.pc = "select"
    /\ LET q2 == [q EXCEPT !.results = SelectByEmail(users, q.email),
                           !.queries = Append(q.queries, "SELECT"),
                           !.ctx = lastWrite[q.email],
                           !.fresh = q.fresh /\ ~contended[q.email]]
       IN IF Len(q2.results) > 0
          THEN Finish(q, Respond(q2, 400, "Email already exists", NoUser,
                                 "warn: Suspicious sign-up attempt"))
          ELSE Advance(q, [q2 EXCEPT !.pc = "hash"])
    /\ UNCHANGED <<users, nextId, uniqueIndex, started, lastWrite, contended>>

\* bcrypt.hash(password, 10) resolves under a salt of its choosing and the
\* INSERT is issued.
SignupHash(q) ==
    /\ q.route = "signup" /\ q.pc = "hash"
    /\ \E salt \in Salts :
         Advance(q, [q EXCEPT !.hashed = Hash(q.password, salt), !.pc = "insert"])
    /\ UNCHANGED <<users, nextId, uniqueIndex, started, lastWrite, contended>>

\* The INSERT is executed.  Under a unique index on email a second row for
\* the email is refused and the query throws; otherwise the row is added
\* under the next auto-assigned id and the request answers 201.
SignupInsert(q) ==
    /\ q.route = "signup" /\ q.pc = "insert"
    /\ LET q2 == [q EXCEPT !.queries = Append(q.queries, "INSERT"),
                           !.fresh = q.fresh /\ ~contended[q.email]]
           present == SelectByEmail(users, q.email) # <<>>
       IN IF uniqueIndex /\ present
          THEN /\ Finish(q, Respond([q2 EXCEPT !.failed = "INSERT"], 500,
                                    FailMsg("signup"), NoUser, "error"))
               /\ UNCHANGED <<users, nextId, lastWrite>>
          ELSE /\ users' = InsertUser(users, nextId, q.email, q.hashed)
               /\ nextId' = nextId + 1
               /\ lastWrite' = [lastWrite EXCEPT ![q.email] =
                                  [kind |-> "signup", old |-> Empty,
                                   new |-> q.password, sole |-> ~present]]
               /\ Finish(q, Respond(q2, 201, "User registered successfully",
                                    NoUser, "info: Successful sign-up"))
    /\ UNCHANGED <<uniqueIndex, started, contended>>

\* ------------------------------------------------------------ POST /login
Login(email, password) ==
    /\ Accept
    /\ LET q == [NoReq EXCEPT !.route = "login", !.email = email,
                              !.password = password]
       IN IF Missing2(email, password)
          THEN Reject(Respond(q, 400, RequiredMsg("login"), NoUser, NoLog))
          ELSE Enter([q EXCEPT !.pc = "select"])
    /\ UNCHANGED <<users, nextId, uniqueIndex, lastWrite, contended>>

\* Variant of LoginSelect that answers an unknown email with 404.
LoginSelectTellsUnknown(q) ==
    /\ q.route = "login" /\ q.pc = "select"
    /\ LET q2 == [q EXCEPT !.results = SelectByEmail(users, q.email),
                           !.queries = Append(q.queries, "SELECT"),
                           !.ctx = lastWrite[q.email]]
       IN IF Len(q2.results) = 0
          THEN Finish(q, Respond(q2, 404, "User not found", NoUser,
                                 "warn: Failed login attempt: User not found"))
          ELSE Advance(q, [q2 EXCEPT !.pc = "compare"])
    /\ UNCHANGED <<users, nextId, uniqueIndex, started, lastWrite, contended>>

\* The lookup SELECT is executed: no row answers 401, otherwise
\* bcrypt.compare is started on the first row.
LoginSelect(q) ==
    /\ q.route = "login" /\ q.pc = "select"
    /\ LET q2 == [q EXCEPT !.results = SelectByEmail(users, q.email),
                           !.queries = Append(q.queries, "SELECT"),
                           !.ctx = lastWrite[q.email]]
       IN IF Len(q2.results) = 0
          THEN Finish(q, Respond(q2, 401, "Invalid email or password", NoUser,
                                 "warn: Failed login attempt: User not found"))
          ELSE Advance(q, [q2 EXCEPT !.pc = "compare"])
    /\ UNCHANGED <<users, nextId, uniqueIndex, started, lastWrite, contended>>

\* bcrypt.compare(password, user.password) resolves, user = results[0].
LoginCompare(q) ==
    /\ q.route = "login" /\ q.pc = "compare"
    /\ LET user == q.results[1]
       IN IF ~Compare(q.password, user.password)
          THEN Finish(q, Respond(q, 401, "Invalid email or password", NoUser,
                                 "warn: Failed login attempt: Incorrect password"))
          ELSE Finish(q, Respond(q, 200, "Login successful",
                                 [id |-> user.id, email |-> user.email],
                                 "info: Successful login"))
    /\ UNCHANGED <<users, nextId, uniqueIndex, started, lastWrite, contended>>

\* -------------------------------------------------- POST /change-password
ChangePassword(email, oldPassword, newPassword) ==
    /\ Accept
    /\ LET q == [NoReq EXCEPT !.route = "change", !.email = email,
                              !.password = oldPassword,
                              !.newPassword = newPassword]
       IN IF Missing3(email, oldPassword, newPassword)
          THEN Reject(Respond(q, 400, RequiredMsg("change"), NoUser, NoLog))
          ELSE Enter([q EXCEPT !.pc = "select"])
    /\ UNCHANGED <<users, nextId, uniqueIndex, lastWrite, contended>>

\* The lookup SELECT is executed: no row answers 404, otherwise
\* bcrypt.compare of the old password is started on the first row.
ChangeSelect(q) ==
    /\ q.route = "change" /\ q.pc = "select"
    /\ LET q2 == [q EXCEPT !.results = SelectByEmail(users, q.email),
                           !.queries = Append(q.queries, "SELECT")]
       IN IF Len(q2.results) = 0
          THEN Finish(q, Respond(q2, 404, "User not found", NoUser, NoLog))
          ELSE Advance(q, [q2 EXCEPT !.pc = "compare"])
    /\ UNCHANGED <<users, nextId, uniqueIndex, started, lastWrite, contended>>

\* bcrypt.compare(oldPassword, user.password) resolves: a mismatch answers
\* 401, a match starts bcrypt.hash of the new password.
ChangeCompare(q) ==
    /\ q.route = "change" /\ q.pc = "compare"
    /\ LET user == q.results[1]
       IN IF ~Compare(q.password, user.password)
          THEN Finish(q, Respond(q, 401, "Invalid old password", NoUser, NoLog))
          ELSE Advance(q, [q EXCEPT !.pc = "hash"])
    /\ UNCHANGED <<users, nextId, uniqueIndex, started, lastWrite, contended>>

\* Variant of ChangeHash that hashes oldPassword.
ChangeHashOfOld(q) ==
    /\ q.route = "change" /\ q.pc = "hash"
    /\ \E salt \in Salts :
         Advance(q, [q EXCEPT !.hashed = Hash(q.password, salt), !.pc = "update"])
    /\ UNCHANGED <<users, nextId, uniqueIndex, started, lastWrite, contended>>

\* bcrypt.hash(newPassword, 10) resolves and the UPDATE is issued.
ChangeHash(q) ==
    /\ q.route = "change" /\ q.pc = "hash"
    /\ \E salt \in Salts :
         Advance(q, [q EXCEPT !.hashed = Hash(q.newPassword, salt), !.pc = "update"])
    /\ UNCHANGED <<users, nextId, uniqueIndex, started, lastWrite, contended>>

\* The UPDATE is executed and the request answers 200.
ChangeUpdate(q) ==
    /\ q.route = "change" /\ q.pc = "update"
    /\ users' = UpdatePassword(users, q.email, q.hashed)
    /\ lastWrite' = [lastWrite EXCEPT ![q.email] =
                       [kind |-> "change", old |-> q.password,
                        new |-> q.newPassword, sole |-> FALSE]]
    /\ Finish(q, Respond([q EXCEPT !.queries = Append(q.queries, "UPDATE")],
                         200, "Password changed successfully", NoUser,
                         "info: Password changed"))
    /\ UNCHANGED <<nextId, uniqueIndex, started, contended>>

\* --------------------------------------------------------- storage errors
\* The query the request is waiting for is rejected (connection lost, server
\* error): the catch block logs the error and answers 500.
QueryFails(q) ==
    /\ q.pc \in {"select", "insert", "update"}
    /\ LET name == CASE q.pc = "select" -> "SELECT"
                     [] q.pc = "insert" -> "INSERT"
                     [] OTHER -> "UPDATE"
       IN Finish(q, Respond([q EXCEPT !.queries = Append(q.queries, name),
                                      !.failed = name, !.fault = TRUE],
                            500, FailMsg(q.route), NoUser, "error"))
    /\ UNCHANGED <<users, nextId, uniqueIndex, started, lastWrite, contended>>

Fields == Emails \cup {Empty}
Secrets == Passwords \cup {Empty}

Next ==
    \/ \E e \in Fields, p \in Secrets : Signup(e, p)
    \/ \E e \in Fields, p \in Secrets : Login(e, p)
    \/ \E e \in Fields, o \in Secrets, n \in Secrets : ChangePassword(e, o, n)
    \/ \E q \in BagToSet(pending) : SignupSelect(q)
    \/ \E q \in BagToSet(pending) : SignupHash(q)
    \/ \E q \in BagToSet(pending) : SignupInsert(q)
    \/ \E q \in BagToSet(pending) : LoginSelect(q)
    \/ \E q \in BagToSet(pending) : LoginCompare(q)
    \/ \E q \in BagToSet(pending) : ChangeSelect(q)
    \/ \E q \in BagToSet(pending) : ChangeCompare(q)
    \/ \E q \in BagToSet(pending) : ChangeHash(q)
    \/ \E q \in BagToSet(pending) : ChangeUpdate(q)

Spec == Init /\ [][Next]_vars

\* The same service over a store whose queries can fail.
NextFault == Next \/ \E q \in BagToSet(pending) : QueryFails(q)

SpecFault == Init /\ [][NextFault]_vars

\* The service over a users table that declares the unique index on email.
InitUnique == Init /\ uniqueIndex

SpecUnique == InitUnique /\ [][Next]_vars

\* ================================================================== claims
\* What the formulas below measure the handlers against, written without
\* the operators the handlers use.

\* The rows of `rows` that hold `email`, in id order.
RowsOf(rows, email) ==
    LET idx == {i \in DOMAIN rows : rows[i].email = email}
        F[n \in 0 .. Len(rows)] ==
            IF n = 0 THEN <<>>
            ELSE IF n \in idx THEN Append(F[n - 1], rows[n]) ELSE F[n - 1]
    IN F[Len(rows)]

\* Hash h is a bcrypt hash of password pw.
Derived(pw, h) == \E s \in Salts : h = Hash(pw, s)

Answered(q) == q.pc = "done"

\* C1: at most one record per email in every reachable state of the store,
\* whatever the interleaving of the signups' SELECT, hash and INSERT steps.
C1_OneRecordPerEmail ==
    \A i, j \in DOMAIN users : users[i].email = users[j].email => i = j

\* C2: signing up twice with one email, the second call issued after the
\* first was answered, on a store with no record for the email and a store
\* whose queries succeed: the first call answers 201; the second answers 400
\* 'Email already exists'; and as long as the first call's INSERT is the
\* last write to the email there is exactly one record for it, holding a
\* hash of the first call's password.
C2_SignupTwice ==
    /\ (last.route = "signup" /\ last.fresh /\ ~last.fault)
          => last.status = 201
    /\ (/\ last.route = "signup"
        /\ last.ctx.kind = "signup"
        /\ last.ctx.sole
        /\ ~last.fault)
          => /\ last.status = 400
             /\ last.message = "Email already exists"
             /\ lastWrite[last.email] = last.ctx
                  => /\ Len(RowsOf(users, last.email)) = 1
                     /\ Derived(last.ctx.new, RowsOf(users, last.email)[1].password)

\* C2 witness: a second signup, with another password, was answered 400
\* after a first signup created the email's only record.
C2_Witness ==
    /\ last.route = "signup"
    /\ last.ctx.kind = "signup"
    /\ last.ctx.sole
    /\ last.status = 400
    /\ last.password # last.ctx.new
    /\ lastWrite[last.email] = last.ctx
    /\ Len(RowsOf(users, last.email)) = 1

\* C3: a login with both fields present whose lookup succeeded is answered
\* with status 401, message 'Invalid email or password' and no user object,
\* both when the lookup found no record and when the record found holds a
\* hash of another password: the two responses are the same, and only the
\* audit entry tells the two cases apart.
C3_UniformLoginFailure ==
    (last.route = "login" /\ Answered(last) /\ last.queries = <<"SELECT">>
       /\ ~last.fault)
      => /\ (last.results = <<>>
               \/ ~Derived(last.password, last.results[1].password))
             => /\ last.status = 401
                /\ last.message = "Invalid email or password"
                /\ last.user = NoUser
         /\ last.results = <<>>
             => last.log = "warn: Failed login attempt: User not found"
         /\ (last.results # <<>>
               /\ ~Derived(last.password, last.results[1].password))
             => last.log = "warn: Failed login attempt: Incorrect password"

\* C3 witness: a login for a registered email with a wrong password was
\* answered 401.
C3_Witness ==
    /\ last.route = "login"
    /\ last.results # <<>>
    /\ ~Derived(last.password, last.results[1].password)
    /\ last.status = 401

\* C4: a login is answered 200 exactly when its lookup returned a record for
\* the email and the password verifies against the hash that record held at
\* the lookup (the record being the one the lookup returns first); the
\* lookup returns the store's rows for the email as they are when it runs;
\* and the user of a 200 response carries the id and email of that record,
\* which is a record of the store.
C4_LoginSuccess ==
    /\ [](Answered(last) /\ last.route = "login"
            => /\ last.status = 200
                   <=> /\ last.results # <<>>
                       /\ Derived(last.password, last.results[1].password)
               /\ last.status = 200
                   => /\ last.user = [id |-> last.results[1].id,
                                      email |-> last.results[1].email]
                      /\ last.user.email = last.email
                      /\ \E i \in DOMAIN users :
                            /\ users[i].id = last.user.id
                            /\ users[i].email = last.user.email)
    /\ [][\A q \in BagToSet(pending) :
            LoginSelect(q)
              => IF RowsOf(users, q.email) = <<>>
                 THEN last'.results = <<>> /\ last'.status = 401
                 ELSE \E q2 \in BagToSet(pending') :
                        /\ q2.route = "login"
                        /\ q2.email = q.email
                        /\ q2.password = q.password
                        /\ q2.pc = "compare"
                        /\ q2.results = RowsOf(users, q.email)]_vars

\* C4 witness: a login was answered 200 with a user.
C4_Witness ==
    /\ last.route = "login"
    /\ last.status = 200
    /\ last.user.email = last.email
    /\ last.user.id = 1

\* C5 as stated: a login whose lookup follows a change-password that
\* answered 200, with no write to the email in between, is answered 200
\* with the new password and 401 with the old one, for every pair of old
\* and new password.
C5_AsStated ==
    (last.route = "login" /\ Answered(last) /\ last.ctx.kind = "change"
       /\ ~last.fault)
      => /\ last.password = last.ctx.new => last.status = 200
         /\ last.password = last.ctx.old => last.status = 401

\* C5 amended: the same, the old password being refused only when the new
\* password differs from it.
C5_ChangeThenLogin ==
    (last.route = "login" /\ Answered(last) /\ last.ctx.kind = "change"
       /\ ~last.fault)
      => /\ last.password = last.ctx.new => last.status = 200
         /\ (last.password = last.ctx.old /\ last.ctx.old # last.ctx.new)
              => last.status = 401

\* C5 witness: after a change to another password, a login with the old
\* password was answered 401.
C5_Witness ==
    /\ last.route = "login"
    /\ last.ctx.kind = "change"
    /\ last.ctx.old # last.ctx.new
    /\ last.password = last.ctx.old
    /\ last.status = 401

\* C6: the request a step accepts, when one of its required fields (email
\* and password; for change-password also newPassword) is missing or empty,
\* is answered 400 by that very step: no query is issued (none is recorded
\* for it and the request does not stay in flight), the store is as before,
\* and no audit entry is written.
C6_MissingFields ==
    [][(BagCardinality(pending') > BagCardinality(pending)
          \/ (pending' = pending /\ last' # NoReq))
         => LET new == IF pending' = pending
                       THEN last'
                       ELSE CHOOSE q \in BagToSet(pending') :
                              CopiesIn(q, pending') > CopiesIn(q, pending)
                required == IF new.route = "change"
                            THEN {new.email, new.password, new.newPassword}
                            ELSE {new.email, new.password}
            IN Empty \in required
                 => /\ new = last'
                    /\ pending' = pending
                    /\ last'.status = 400
                    /\ last'.message =
                         (IF new.route = "change"
                          THEN "Email, old password, and new password are required"
                          ELSE "Email and password are required")
                    /\ last'.queries = <<>>
                    /\ last'.log = NoLog
                    /\ last'.nresp = 1
                    /\ users' = users
                    /\ nextId' = nextId]_vars

\* C6 witness: a change-password with only its new password missing was
\* answered 400 while the store holds a record for its email.
C6_Witness ==
    /\ last.route = "change"
    /\ last.email # Empty /\ last.password # Empty /\ last.newPassword = Empty
    /\ last.status = 400
    /\ last.queries = <<>>
    /\ RowsOf(users, last.email) # <<>>

\* C7: a change-password with its three fields present is answered 404 when
\* its lookup finds no record for the email and 401 when the record found
\* holds no hash of oldPassword; neither request issues an UPDATE, and the
\* step that answers leaves every record as it was.
C7_ChangeRefused ==
    [][\A q \in BagToSet(pending) :
          /\ (ChangeSelect(q) /\ RowsOf(users, q.email) = <<>>)
               => /\ last'.status = 404
                  /\ last'.message = "User not found"
                  /\ last'.queries = <<"SELECT">>
                  /\ users' = users
          /\ (ChangeCompare(q) /\ ~Derived(q.password, q.results[1].password))
               => /\ last'.status = 401
                  /\ last'.message = "Invalid old password"
                  /\ last'.email = q.email /\ last'.password = q.password
                  /\ last'.queries = <<"SELECT">>
                  /\ users' = users]_vars

\* C7 witness: a change-password with a wrong old password was answered 401
\* and the record still holds the hash of its sign-up password.
C7_Witness ==
    /\ last.route = "change"
    /\ last.status = 401
    /\ last.queries = <<"SELECT">>
    /\ Len(RowsOf(users, last.email)) = 1
    /\ ~Derived(last.password, RowsOf(users, last.email)[1].password)
    /\ lastWrite[last.email].kind = "signup"

\* C8: in every step the store keeps its rows with their ids and emails;
\* it changes only by a signup answered 201, which adds one row for its
\* email under the next id with the hash it computed, or by a
\* change-password answered 200, which replaces the hash of the rows of its
\* email and of no other row; no step of a login changes the store.
C8_StoreFrame ==
    [][/\ Len(users') >= Len(users)
       /\ \A i \in DOMAIN users :
            /\ users'[i].id = users[i].id
            /\ users'[i].email = users[i].email
       /\ users' # users
            => /\ last'.status \in {200, 201}
               /\ \E q \in BagToSet(pending) :
                    /\ CopiesIn(q, pending') = CopiesIn(q, pending) - 1
                    /\ last'.route = q.route
                    /\ last'.email = q.email
                    /\ \/ /\ q.route = "signup"
                          /\ last'.status = 201
                          /\ users' = Append(users,
                                             [id |-> nextId, email |-> q.email,
                                              password |-> q.hashed])
                          /\ Derived(q.password, q.hashed)
                          /\ \A i \in DOMAIN users : users[i].id < nextId
                       \/ /\ q.route = "change"
                          /\ last'.status = 200
                          /\ Len(users') = Len(users)
                          /\ \A i \in DOMAIN users :
                               IF users[i].email = q.email
                               THEN /\ users'[i].password = q.hashed
                                    /\ Derived(q.newPassword, q.hashed)
                               ELSE users'[i] = users[i]]_vars

\* C8 witness: a change-password was answered 200 and the record of another
\* email still holds the hash of its own sign-up password.
C8_Witness ==
    /\ last.route = "change"
    /\ last.status = 200
    /\ \E e \in Emails :
         /\ e # last.email
         /\ Len(RowsOf(users, e)) = 1
         /\ Derived(lastWrite[e].new, RowsOf(users, e)[1].password)
         /\ ~Derived(last.newPassword, RowsOf(users, e)[1].password)

\* The distinct query names of a request, in the order the handler issues them.
QueryPlans ==
    {<<>>, <<"SELECT">>, <<"SELECT", "INSERT">>, <<"SELECT", "UPDATE">>}

\* C9: a request whose storage query fails (rejected by the store, or an
\* INSERT refused by the unique index) is answered once, with status 500
\* and its route's fixed message; the failed query is its last query and
\* none is repeated; the step that answers it takes the request out of
\* flight, so it issues nothing more, and leaves the store as it was before
\* the failed query.  Every answered request has exactly one response and
\* no request in flight has any.
C9_StorageFailure ==
    /\ [](/\ Answered(last) => last.nresp = 1
          /\ \A q \in BagToSet(pending) : q.nresp = 0 /\ q.failed = "none"
          /\ last.failed # "none"
               => /\ last.status = 500
                  /\ last.message =
                       (CASE last.route = "signup" -> "Sign-up failed"
                          [] last.route = "login" -> "Login failed"
                          [] OTHER -> "Failed to change password")
                  /\ last.user = NoUser
                  /\ last.queries \in QueryPlans
                  /\ last.queries[Len(last.queries)] = last.failed)
    /\ [][last'.failed # "none"
            => /\ \E q \in BagToSet(pending) :
                    /\ pending' = pending (-) SetToBag({q})
                    /\ last'.route = q.route
                    /\ last'.email = q.email
                    /\ last'.queries = Append(q.queries, last'.failed)
               /\ users' = users
               /\ nextId' = nextId]_vars

\* C9 witness: a signup whose INSERT failed was answered 500 and the store
\* holds no record for its email.
C9_Witness ==
    /\ last.route = "signup"
    /\ last.fault
    /\ last.failed = "INSERT"
    /\ last.status = 500
    /\ RowsOf(users, last.email) = <<>>

\* C10: a change-password overwrites the hash and answers 200 only if its
\* oldPassword verifies against the hash the record holds when its UPDATE
\* is applied, whatever other change-password ran since its own lookup.
C10_NoLostUpdate ==
    [][\A q \in BagToSet(pending) :
          (ChangeUpdate(q) /\ users' # users)
            => \A i \in DOMAIN users :
                 users[i].email = q.email => Derived(q.password, users[i].password)]_vars

====
